---- MODULE Spec2Model ----
(***************************************************************************)
(* Model of uhv6_dash.py: the Streamlit dashboard over the hospital-level  *)
(* and state-level "Unplanned Hospital Visits" tables.                     *)
(*                                                                         *)
(* The script is re-executed from top to bottom on every widget change.    *)
(* State: the two CSV files, the widget values (measure group, measures,   *)
(* states) and the tables and view results bound by the last execution.    *)
(***************************************************************************)
EXTENDS Integers, Sequences, FiniteSets, TLC

VARIABLES
    pc,                 \* "start" before the first execution, "ready" after it
    csv_hosp,           \* content of Unplanned_Hospital_Visits-Hospital.csv
    csv_state,          \* content of Unplanned_Hospital_Visits-State.csv
    selected_group,     \* st.sidebar.selectbox("Measure Group")
    selected_measures,  \* st.sidebar.multiselect("Measure")
    selected_states,    \* st.sidebar.multiselect("State")
    cache,              \* what st.cache_data holds for the two loaders
    env,                \* the data frames bound by the last execution
    out                 \* what the last execution handed to the page

vars == <<pc, csv_hosp, csv_state, selected_group, selected_measures,
          selected_states, cache, env, out>>

(***************************************************************************)
(* Cells.  A cell of a data frame is NaN, a number or a string.            *)
(***************************************************************************)
NaN == [k |-> "nan", n |-> 0, s |-> ""]

Num(i) == [k |-> "num", n |-> i, s |-> ""]

Str(x) == [k |-> "str", n |-> 0, s |-> x]

notna(c) == c.k # "nan"

isna(c) == c.k = "nan"

\* Series.fillna(other): the other value where the cell is NaN
fillna(c, other) == IF isna(c) THEN other ELSE c

(***************************************************************************)
(* Column names.                                                           *)
(***************************************************************************)
HospCols == {"Facility ID", "Facility Name", "State", "Measure Name", "Score",
             "Denominator", "Number of Patients", "Number of Patients Returned",
             "Lower Estimate", "Higher Estimate", "Compared to National"}

hosp_num_cols == {"Score", "Denominator", "Number of Patients",
                  "Number of Patients Returned", "Lower Estimate",
                  "Higher Estimate"}

state_num_cols == {"Number of Hospitals Worse", "Number of Hospitals Same",
                   "Number of Hospitals Better", "Number of Hospitals Too Few",
                   "Number of Hospitals Fewer", "Number of Hospitals Average",
                   "Number of Hospitals More", "Number of Hospitals Too Small"}

StateCols == {"State", "Measure Name"} \cup state_num_cols

na_vals == {"Not Available", "Not Applicable", "NA", "", "Too Few to Report",
            "Number of Cases Too Small", "Number of cases too small"}

\* the strings pd.read_csv turns into NaN by default
read_csv_na == {"", "#N/A", "#N/A N/A", "#NA", "-1.#IND", "-1.#QNAN", "-NaN",
                "-nan", "1.#IND", "1.#QNAN", "<NA>", "N/A", "NA", "NULL", "NaN",
                "None", "n/a", "nan", "null"}

(***************************************************************************)
(* Numeric parsing (the numerals used by the inputs of this model).        *)
(***************************************************************************)
Numerals == <<"0", "1", "2", "3", "4", "5", "6", "7", "8", "9">>

IsNumeral(x) == \E i \in 1..Len(Numerals) : Numerals[i] = x

NumeralValue(x) == (CHOOSE i \in 1..Len(Numerals) : Numerals[i] = x) - 1

(***************************************************************************)
(* pd.read_csv: a RangeIndex, the default NA strings become NaN, a column  *)
(* whose remaining cells all parse becomes numeric, any other column keeps *)
(* its cells as strings.                                                   *)
(***************************************************************************)
ColumnIsNumeric(csv, c) ==
    \A i \in 1..Len(csv) : csv[i][c] \in read_csv_na \/ IsNumeral(csv[i][c])

read_csv(csv) ==
    [i \in 1..Len(csv) |->
        [idx |-> i - 1,
         v   |-> [c \in DOMAIN csv[i] |->
                    IF csv[i][c] \in read_csv_na THEN NaN
                    ELSE IF ColumnIsNumeric(csv, c)
                         THEN Num(NumeralValue(csv[i][c]))
                         ELSE Str(csv[i][c])]]]

\* df.replace(na_vals, np.nan, inplace=True)
replace_na(df) ==
    [i \in 1..Len(df) |->
        [df[i] EXCEPT !.v = [c \in DOMAIN df[i].v |->
            IF df[i].v[c].k = "str" /\ df[i].v[c].s \in na_vals
            THEN NaN ELSE df[i].v[c]]]]

\* pd.to_numeric(cell, errors="coerce")
to_numeric(c) ==
    IF c.k = "str"
    THEN IF IsNumeral(c.s) THEN Num(NumeralValue(c.s)) ELSE NaN
    ELSE c

\* for c in num_cols: if c in df.columns: df[c] = pd.to_numeric(df[c], ...)
coerce_columns(df, cols) ==
    [i \in 1..Len(df) |->
        [df[i] EXCEPT !.v = [c \in DOMAIN df[i].v |->
            IF c \in cols THEN to_numeric(df[i].v[c]) ELSE df[i].v[c]]]]

load_data(csv) == coerce_columns(replace_na(read_csv(csv)), hosp_num_cols)

load_state_level_data(csv) == coerce_columns(read_csv(csv), state_num_cols)

(***************************************************************************)
(* Measure taxonomy.  The first group's key is written in the source with  *)
(* an en dash; the key is an opaque label and is spelled here in ASCII.    *)
(***************************************************************************)
EDAC == "EDAC - Excess Hospital Return Days"

HWR == "Hospital-Wide Readmission Ratio"

PROC == "Procedure / Outpatient Visit Rates"

COND == "Condition-Specific 30-Day Readmission Rates"

GroupNames == <<EDAC, HWR, PROC, COND>>

MEASURE_GROUPS ==
    [g \in {EDAC, HWR, PROC, COND} |->
        CASE g = EDAC ->
               <<"Hospital return days for heart attack patients",
                 "Hospital return days for heart failure patients",
                 "Hospital return days for pneumonia patients">>
          [] g = HWR ->
               <<"Hybrid Hospital-Wide All-Cause Readmission Measure (HWR)">>
          [] g = PROC ->
               <<"Rate of unplanned hospital visits after colonoscopy (per 1,000 colonoscopies)",
                 "Rate of inpatient admissions for patients receiving outpatient chemotherapy",
                 "Rate of emergency department (ED) visits for patients receiving outpatient chemotherapy",
                 "Ratio of unplanned hospital visits after hospital outpatient surgery">>
          [] g = COND ->
               <<"Acute Myocardial Infarction (AMI) 30-Day Readmission Rate",
                 "Heart failure (HF) 30-Day Readmission Rate",
                 "Pneumonia (PN) 30-Day Readmission Rate",
                 "Rate of readmission for CABG",
                 "Rate of readmission for chronic obstructive pulmonary disease (COPD) patients",
                 "Rate of readmission after hip/knee replacement">>]

STATE_BENCHMARK_CONFIG ==
    [g \in {EDAC, HWR, PROC, COND} |->
        IF g = EDAC
        THEN <<"Number of Hospitals Fewer", "Number of Hospitals Average",
               "Number of Hospitals More", "Number of Hospitals Too Small">>
        ELSE <<"Number of Hospitals Better", "Number of Hospitals Same",
               "Number of Hospitals Worse", "Number of Hospitals Too Small">>]

Range(f) == {f[i] : i \in DOMAIN f}

(***************************************************************************)
(* Data-frame helpers.                                                     *)
(***************************************************************************)
\* df[mask]: the rows whose mask is true, index labels kept
RECURSIVE Rows(_, _)
Rows(df, keep) ==
    IF df = <<>> THEN <<>>
    ELSE (IF Head(df).idx \in keep THEN <<Head(df)>> ELSE <<>>)
         \o Rows(Tail(df), keep)

Index(df) == {df[i].idx : i \in 1..Len(df)}

\* Series.isin(values) on a column holding strings
isin_names(c, names) == c.k = "str" /\ c.s \in names

\* Series.isin(values) where the values are cells taken from the column
isin_cells(c, cells) == c \in cells

\* Series.nunique(): distinct non-NaN values
nunique(df, col) == Cardinality({df[i].v[col] : i \in 1..Len(df)} \ {NaN})

\* df[col].dropna().unique()
unique_values(df, col) == {df[i].v[col] : i \in 1..Len(df)} \ {NaN}

RECURSIVE SumOver(_, _)
SumOver(S, f) ==
    IF S = {} THEN 0
    ELSE LET x == CHOOSE y \in S : TRUE IN f[x] + SumOver(S \ {x}, f)

\* a quotient num/den kept exact; den = 0 stands for the float NaN
Ratio(num, den) == [num |-> num, den |-> den]

IsNaNRatio(r) == r.den = 0

\* Series.mean() of a boolean mask: the fraction of true entries, NaN if empty
mask_mean(df, mask) == Ratio(Cardinality(mask), Len(df))

\* Series.mean() of the numeric cells of a column over the rows given
column_mean(df, col) ==
    Ratio(SumOver(1..Len(df), [i \in 1..Len(df) |-> df[i].v[col].n]), Len(df))

\* round-half-even of 100 * num / den (den > 0)
RoundPercent(num, den) ==
    LET q == (100 * num) \div den
        r == (100 * num) % den
    IN  IF 2 * r < den THEN q
        ELSE IF 2 * r > den THEN q + 1
        ELSE IF q % 2 = 0 THEN q ELSE q + 1

\* f"{x:.0%}"
format_percent(r) ==
    IF IsNaNRatio(r) THEN [text |-> "nan%", pct |-> 0]
    ELSE [text |-> "%", pct |-> RoundPercent(r.num, r.den)]

(***************************************************************************)
(* Sorting.  DataFrame.sort_values uses an unstable sort: rows with equal  *)
(* keys come out in an order the library does not fix.  Each sort takes a  *)
(* tie order: equal keys in their original order ("first") or reversed     *)
(* ("last").                                                               *)
(***************************************************************************)
TieOrders == {"first", "last"}

Tagged(df) == [i \in 1..Len(df) |-> [p |-> i, e |-> df[i]]]

Untagged(ts) == [i \in 1..Len(ts) |-> ts[i].e]

TieLess(a, b, tie) == IF tie = "first" THEN a.p < b.p ELSE a.p > b.p

\* df.sort_values(col, ascending=False) on a column without NaN
sort_desc(df, col, tie) ==
    LET less(a, b) == \/ a.e.v[col].n > b.e.v[col].n
                      \/ a.e.v[col].n = b.e.v[col].n /\ TieLess(a, b, tie)
    IN  Untagged(SortSeq(Tagged(df), less))

\* df.sort_values(col) on a column without NaN
sort_asc(df, col, tie) ==
    LET less(a, b) == \/ a.e.v[col].n < b.e.v[col].n
                      \/ a.e.v[col].n = b.e.v[col].n /\ TieLess(a, b, tie)
    IN  Untagged(SortSeq(Tagged(df), less))

head(df, n) == SubSeq(df, 1, IF Len(df) < n THEN Len(df) ELSE n)

tail(df, n) == SubSeq(df, IF Len(df) < n THEN 1 ELSE Len(df) - n + 1, Len(df))

\* df[[cols]]
project(df, cols) ==
    [i \in 1..Len(df) |-> [idx |-> df[i].idx, v |-> [c \in cols |-> df[i].v[c]]]]

\* df[new_col] = values (a series: one value per row position)
with_column(df, col, values) ==
    [i \in 1..Len(df) |->
        [df[i] EXCEPT !.v = [c \in DOMAIN df[i].v \cup {col} |->
                                IF c = col THEN values[i] ELSE df[i].v[c]]]]

(***************************************************************************)
(* The script, statement by statement.  e is the binding of the script's   *)
(* data-frame names; a name outside e.bound has not been assigned.         *)
(***************************************************************************)
\* lines 116-119: the cached loaders hand back the loaded tables
bind_loaded(loaded) ==
    [df_raw |-> loaded.df_raw, df_state |-> loaded.df_state,
     df |-> <<>>, df_perf |-> <<>>, df_scatter |-> <<>>, state_filtered |-> <<>>,
     bound |-> {"df_raw", "df_state"}]

\* faulty variant of measure_mask: an empty selection of measures read as "all"
measure_mask_empty_is_all(df, measures) ==
    IF measures = {} THEN Index(df)
    ELSE {df[i].idx : i \in {j \in 1..Len(df) :
                                isin_names(df[j].v["Measure Name"], measures)}}

\* line 180: df_raw[df_raw["Measure Name"].isin(selected_measures)].copy()
measure_mask(df, measures) ==
    {df[i].idx : i \in {j \in 1..Len(df) : isin_names(df[j].v["Measure Name"], measures)}}

\* line 182: df[df["State"].isin(selected_states)]
state_mask(df, states) ==
    {df[i].idx : i \in {j \in 1..Len(df) : isin_cells(df[j].v["State"], states)}}

\* faulty variant of filter_frame: the state filter applied to an empty selection too
filter_frame_always_state(df, measures, states) ==
    LET by_measure == Rows(df, measure_mask(df, measures))
    IN  Rows(by_measure, state_mask(by_measure, states))

\* lines 180-182 and 529-536: the measure filter, then the state filter if any
filter_frame(df, measures, states) ==
    LET by_measure == Rows(df, measure_mask(df, measures))
    IN  IF states # {}
        THEN Rows(by_measure, state_mask(by_measure, states))
        ELSE by_measure

\* faulty variant of apply_filters: the source table filtered in place
apply_filters_in_place(e, measures, states) ==
    [e EXCEPT !.df_raw = filter_frame(e.df_raw, measures, states),
              !.df = filter_frame(e.df_raw, measures, states),
              !.bound = @ \cup {"df"}]

apply_filters(e, measures, states) ==
    [e EXCEPT !.df = filter_frame(e.df_raw, measures, states),
              !.bound = @ \cup {"df"}]

\* faulty variant of perf_frame: the display column without the fillna
perf_frame_no_fill(e) ==
    LET display == [i \in 1..Len(e.df) |-> e.df[i].v["Compared to National"]]
    IN  [e EXCEPT !.df_perf = with_column(e.df, "Compared to National Display", display),
                  !.bound = @ \cup {"df_perf"}]

\* lines 260-265
perf_frame(e) ==
    LET display == [i \in 1..Len(e.df) |->
                        fillna(e.df[i].v["Compared to National"], Str("Not Available"))]
    IN  [e EXCEPT !.df_perf = with_column(e.df, "Compared to National Display", display),
                  !.bound = @ \cup {"df_perf"}]

\* line 307: df.dropna(subset=["Score", "Number of Patients"])
scatter_mask(df) ==
    {df[i].idx : i \in {j \in 1..Len(df) :
        notna(df[j].v["Score"]) /\ notna(df[j].v["Number of Patients"])}}

\* faulty variant of volume_applies: the test for the EDAC group inverted
volume_applies_inverted(group) == group # EDAC

\* line 298: the volume tab computes only for the EDAC group
volume_applies(group) == group = EDAC

\* lines 307-312
scatter_frame(e, group) ==
    LET kept   == Rows(e.df, scatter_mask(e.df))
        bubble == [i \in 1..Len(kept) |->
                      fillna(kept[i].v["Number of Patients Returned"],
                             kept[i].v["Number of Patients"])]
    IN  IF volume_applies(group)
        THEN [e EXCEPT !.df_scatter = with_column(kept, "bubble_size", bubble),
                       !.bound = @ \cup {"df_scatter"}]
        ELSE e

\* faulty variant of benchmark_mask: how="any" in place of how="all"
benchmark_mask_any(df, value_cols) ==
    {df[i].idx : i \in {j \in 1..Len(df) :
        \A c \in Range(value_cols) : notna(df[j].v[c])}}

\* line 539: dropna(subset=value_cols, how="all") keeps a row with any counter
benchmark_mask(df, value_cols) ==
    {df[i].idx : i \in {j \in 1..Len(df) :
        \E c \in Range(value_cols) : notna(df[j].v[c])}}

\* lines 524-539
state_frame(e, group, measures, states) ==
    LET value_cols == STATE_BENCHMARK_CONFIG[group]
        filtered   == filter_frame(e.df_state, measures, states)
    IN  [e EXCEPT !.state_filtered = Rows(filtered, benchmark_mask(filtered, value_cols)),
                  !.bound = @ \cup {"state_filtered"}]

\* the data frames after one execution of the script
run_frames(loaded, group, measures, states) ==
    state_frame(
        scatter_frame(
            perf_frame(apply_filters(bind_loaded(loaded), measures, states)),
            group),
        group, measures, states)

(***************************************************************************)
(* The views.  A groupby result is modelled as the set of its rows.        *)
(***************************************************************************)
HEAD_N == 10

TOP_VOL_N == 15

\* faulty variant of valid_score: isna() in place of notna()
valid_score_isna(df) == {df[i].idx : i \in {j \in 1..Len(df) : isna(df[j].v["Score"])}}

\* line 195: df["Score"].notna()
valid_score(df) == {df[i].idx : i \in {j \in 1..Len(df) : notna(df[j].v["Score"])}}

\* lines 199-206
kpi_row(df) ==
    LET valid == valid_score(df)
    IN  [hospitals     |-> nunique(df, "Facility ID"),
         measures      |-> nunique(df, "Measure Name"),
         coverage      |-> mask_mean(df, valid),
         coverage_text |-> format_percent(mask_mean(df, valid)),
         average       |-> IF valid # {}
                           THEN [text |-> "mean",
                                 mean |-> column_mean(Rows(df, valid), "Score")]
                           ELSE [text |-> "N/A", mean |-> Ratio(0, 0)]]

\* lines 272-276: groupby([...]).size().reset_index(name="Hospitals")
perf_counts(df_perf) ==
    LET keys == {<<df_perf[i].v["Measure Name"],
                   df_perf[i].v["Compared to National Display"]>> :
                    i \in {j \in 1..Len(df_perf) :
                            /\ notna(df_perf[j].v["Measure Name"])
                            /\ notna(df_perf[j].v["Compared to National Display"])}}
    IN  {[measure   |-> k[1],
          category  |-> k[2],
          Hospitals |-> Cardinality({i \in 1..Len(df_perf) :
                            /\ df_perf[i].v["Measure Name"] = k[1]
                            /\ df_perf[i].v["Compared to National Display"] = k[2]})] :
         k \in keys}

\* lines 297-332
volume_view(e, group, tie) ==
    IF volume_applies(group)
    THEN [shown   |-> "charts",
          scatter |-> e.df_scatter,
          top_vol |-> project(head(sort_desc(e.df_scatter, "Number of Patients", tie),
                                   TOP_VOL_N),
                              {"Facility Name", "State", "Number of Patients", "Score"})]
    ELSE [shown |-> "info", scatter |-> <<>>, top_vol |-> <<>>]

\* lines 340-345: df[df["Score"].notna()].groupby("State")["Score"].mean()
state_average(df) ==
    LET scored == Rows(df, valid_score(df))
    IN  {[State |-> st,
          Score |-> column_mean(SelectSeq(scored, LAMBDA r : r.v["State"] = st), "Score")] :
         st \in unique_values(scored, "State")}

\* line 405
ranked_frame(df, tie) == sort_desc(Rows(df, valid_score(df)), "Score", tie)

\* line 412: ranked.head(10)
worst_10(ranked) == project(head(ranked, HEAD_N), {"Facility Name", "State", "Score"})

\* faulty variant of best_10: the tail shown as it is, without the ascending sort
best_10_unsorted(ranked, tie) ==
    project(tail(ranked, HEAD_N), {"Facility Name", "State", "Score"})

\* lines 417-421: ranked.tail(10).sort_values("Score")
best_10(ranked, tie) ==
    project(sort_asc(tail(ranked, HEAD_N), "Score", tie),
            {"Facility Name", "State", "Score"})

\* faulty variant of melt: the last value column left out of the long form
melt_drops_last(df, value_cols) ==
    [p \in 1..(Len(df) * (Len(value_cols) - 1)) |->
        LET k == ((p - 1) \div Len(df)) + 1
            i == ((p - 1) % Len(df)) + 1
        IN  [idx |-> p - 1,
             v   |-> [c \in {"State", "Measure Name", "Performance", "Hospitals"} |->
                        CASE c = "State"        -> df[i].v["State"]
                          [] c = "Measure Name" -> df[i].v["Measure Name"]
                          [] c = "Performance"  -> Str(value_cols[k])
                          [] c = "Hospitals"    -> df[i].v[value_cols[k]]]]]

\* lines 542-547: melt(id_vars=["State", "Measure Name"], value_vars=value_cols)
melt(df, value_cols) ==
    [p \in 1..(Len(df) * Len(value_cols)) |->
        LET k == ((p - 1) \div Len(df)) + 1
            i == ((p - 1) % Len(df)) + 1
        IN  [idx |-> p - 1,
             v   |-> [c \in {"State", "Measure Name", "Performance", "Hospitals"} |->
                        CASE c = "State"        -> df[i].v["State"]
                          [] c = "Measure Name" -> df[i].v["Measure Name"]
                          [] c = "Performance"  -> Str(value_cols[k])
                          [] c = "Hospitals"    -> df[i].v[value_cols[k]]]]]

\* everything one execution of the script hands to the page
run_views(e, group, tie1, tie2) ==
    LET ranked == ranked_frame(e.df, tie1)
    IN  [kpi        |-> kpi_row(e.df),
         hist       |-> Rows(e.df, valid_score(e.df)),
         perf       |-> perf_counts(e.df_perf),
         volume     |-> volume_view(e, group, tie1),
         state_avg  |-> state_average(e.df),
         ranked     |-> ranked,
         worst      |-> worst_10(ranked),
         best       |-> best_10(ranked, tie2),
         state_long |-> melt(e.state_filtered, STATE_BENCHMARK_CONFIG[group])]

(***************************************************************************)
(* Input files.                                                            *)
(***************************************************************************)
PN == MEASURE_GROUPS[COND][3]

RD_AMI == MEASURE_GROUPS[EDAC][1]

RD_HF == MEASURE_GROUPS[EDAC][2]

HospRow(fid, st, m, score, patients, returned, cmp) ==
    [c \in HospCols |->
        CASE c = "Facility ID"                 -> fid
          [] c = "Facility Name"               -> fid
          [] c = "State"                       -> st
          [] c = "Measure Name"                -> m
          [] c = "Score"                       -> score
          [] c = "Denominator"                 -> "5"
          [] c = "Number of Patients"          -> patients
          [] c = "Number of Patients Returned" -> returned
          [] c = "Lower Estimate"              -> "1"
          [] c = "Higher Estimate"             -> "9"
          [] c = "Compared to National"        -> cmp]

\* counters in the order better, same, worse, fewer, average, more, too small
StateRow(st, m, ctr) ==
    [c \in StateCols |->
        CASE c = "State"                         -> st
          [] c = "Measure Name"                  -> m
          [] c = "Number of Hospitals Better"    -> ctr[1]
          [] c = "Number of Hospitals Same"      -> ctr[2]
          [] c = "Number of Hospitals Worse"     -> ctr[3]
          [] c = "Number of Hospitals Fewer"     -> ctr[4]
          [] c = "Number of Hospitals Average"   -> ctr[5]
          [] c = "Number of Hospitals More"      -> ctr[6]
          [] c = "Number of Hospitals Too Small" -> ctr[7]
          [] c = "Number of Hospitals Too Few"   -> "Not Applicable"]

NA == "Not Applicable"

NAV == "Not Available"

HospPool ==
    << HospRow("1", "CA", PN, "7", NA, NA, "Worse than expected"),
       HospRow("2", "CA", PN, NAV, NA, NA, NAV),
       HospRow("3", "TX", PN, "3", NA, NA, "Better than expected"),
       HospRow("2", "CA", PN, "5", NA, NA, NAV),
       HospRow("1", "CA", RD_AMI, "4", "8", "2", "Average Days per 100 Discharges"),
       HospRow("2", "TX", RD_AMI, "6", "5", NAV, "More Days Than Average per 100 Discharges"),
       HospRow("3", "", RD_HF, NAV, "9", "1", "Number of Cases Too Small"),
       HospRow("4", "TX", RD_AMI, "2", NAV, NAV, "Fewer Days Than Average per 100 Discharges") >>

StatePool ==
    << StateRow("CA", PN, <<"1", "2", "3", NA, NA, NA, "4">>),
       StateRow("TX", PN, <<NA, NA, NA, NA, NA, NA, NA>>),
       StateRow("CA", PN, <<"2", NA, NA, NA, NA, NA, NA>>),
       StateRow("CA", RD_AMI, <<NA, NA, NA, "1", "2", "0", "5">>),
       StateRow("TX", RD_AMI, <<NA, NA, NA, NA, NA, NA, "2">>),
       StateRow("TX", RD_AMI, <<"3", NA, NA, NA, NA, NA, NA>>),
       StateRow("CA", RD_HF, <<NA, NA, NA, "x", "1", NA, NA>>) >>

MaxRows == 2

\* the files of at most n rows drawn from a pool, up to the order of the rows
Files(pool, n) ==
    UNION {{[i \in 1..k |-> pool[q[i]]] :
              q \in {f \in [1..k -> 1..Len(pool)] :
                        \A i, j \in 1..k : i < j => f[i] <= f[j]}} :
           k \in 0..n}

FixedHosp == <<HospPool[1], HospPool[3], HospPool[5], HospPool[6]>>

FixedState == <<StatePool[1], StatePool[4], StatePool[2]>>

HospCases == {[hosp |-> h, state |-> FixedState] : h \in Files(HospPool, MaxRows)}

StateCases == {[hosp |-> FixedHosp, state |-> f] : f \in Files(StatePool, MaxRows)}

\* cell texts a file can hold: the sentinels, another NA spelling, a number
\* and a word
RawTexts == <<"Not Available", "Not Applicable", "NA", "", "Too Few to Report",
              "Number of Cases Too Small", "Number of cases too small",
              "N/A", "3", "x">>

\* hospital rows with one cell (score, category or state) taking each text
LoadHospRows ==
    {HospRow("1", "CA", RD_AMI, RawTexts[i], "8", "2", "Worse than expected") :
        i \in 1..Len(RawTexts)}
    \cup {HospRow("1", "CA", RD_AMI, "7", "8", "2", RawTexts[i]) : i \in 1..Len(RawTexts)}
    \cup {HospRow("1", RawTexts[i], RD_AMI, "7", "8", "2", "Worse than expected") :
            i \in 1..Len(RawTexts)}

\* state rows with one cell (state, measure name or a counter) taking each text
LoadStateRows ==
    {StateRow(RawTexts[i], RD_AMI, <<NA, NA, NA, "1", "2", "0", "5">>) :
        i \in 1..Len(RawTexts)}
    \cup {StateRow("CA", RawTexts[i], <<NA, NA, NA, "1", "2", "0", "5">>) :
            i \in 1..Len(RawTexts)}
    \cup {StateRow("CA", RD_AMI, <<NA, NA, NA, RawTexts[i], "2", "0", "5">>) :
            i \in 1..Len(RawTexts)}

\* each such row alone, and each followed by a plain row
LoadCases ==
    {[hosp |-> h, state |-> FixedState] :
        h \in {<<r>> : r \in LoadHospRows} \cup {<<r, HospPool[6]>> : r \in LoadHospRows}}
    \cup
    {[hosp |-> FixedHosp, state |-> f] :
        f \in {<<r>> : r \in LoadStateRows} \cup {<<r, StatePool[4]>> : r \in LoadStateRows}}

RankRows == 21

\* a hospital file of n rows of one measure: the first z rows without a score,
\* row i with score (a * i) mod m, the last row in another state
RankFile(n, z, a, m) ==
    [i \in 1..n |->
        HospRow(Numerals[(i % 10) + 1],
                IF i = n THEN "TX" ELSE "CA",
                MEASURE_GROUPS[HWR][1],
                IF i <= z THEN NAV ELSE Numerals[((a * i) % m) + 1],
                NA, NA, "Worse than expected")]

RankCases ==
    {[hosp |-> RankFile(n, z, p[1], p[2]), state |-> FixedState] :
        n \in (RankRows - 2)..RankRows,
        z \in 0..1,
        p \in {<<1, 1>>, <<1, 3>>, <<3, 10>>, <<7, 10>>}}

(***************************************************************************)
(* The program.                                                            *)
(***************************************************************************)
default_measures(group) == {MEASURE_GROUPS[group][1]}

InitOf(cases) ==
    /\ pc = "start"
    /\ \E f \in cases : csv_hosp = f.hosp /\ csv_state = f.state
    /\ selected_group = GroupNames[1]
    /\ selected_measures = default_measures(GroupNames[1])
    /\ selected_states = {}
    /\ cache = [df_raw |-> <<>>, df_state |-> <<>>]
    /\ env = bind_loaded([df_raw |-> <<>>, df_state |-> <<>>])
    /\ out = [shown |-> "nothing"]

\* the tie orders that can make a difference when df is sorted by col
tie_orders(df, col) ==
    IF \E i, j \in 1..Len(df) : i # j /\ df[i].v[col] = df[j].v[col]
    THEN TieOrders ELSE {"first"}

\* one execution of the script with the widget values given
Execute(loaded, group, measures, states) ==
    /\ env' = run_frames(loaded, group, measures, states)
    /\ \E tie1 \in tie_orders(env'.df, "Score") \cup
                   tie_orders(env'.df_scatter, "Number of Patients"),
          tie2 \in tie_orders(env'.df, "Score") :
            out' = run_views(env', group, tie1, tie2)

\* the first execution: both loaders miss the cache and read their file
FirstRun ==
    /\ pc = "start"
    /\ pc' = "ready"
    /\ cache' = [df_raw   |-> load_data(csv_hosp),
                 df_state |-> load_state_level_data(csv_state)]
    /\ Execute(cache', selected_group, selected_measures, selected_states)
    /\ UNCHANGED <<csv_hosp, csv_state, selected_group, selected_measures,
                   selected_states>>

\* the user picks another measure group: the measure widget gets new options
\* and falls back to its default
SelectGroup(g) ==
    /\ pc = "ready"
    /\ g # selected_group
    /\ selected_group' = g
    /\ selected_measures' = default_measures(g)
    /\ Execute(cache, g, default_measures(g), selected_states)
    /\ UNCHANGED <<pc, csv_hosp, csv_state, selected_states, cache>>

\* a multiselect changes by one option at a time, or is cleared
toggled(selection, options) ==
    {selection \cup {x} : x \in options \ selection}
    \cup {selection \ {x} : x \in selection}
    \cup {{}}

\* the user changes the selection of measures within the group
SelectMeasures(ms) ==
    /\ pc = "ready"
    /\ ms # selected_measures
    /\ selected_measures' = ms
    /\ Execute(cache, selected_group, ms, selected_states)
    /\ UNCHANGED <<pc, csv_hosp, csv_state, selected_group, selected_states, cache>>

\* line 175: the options of the state widget
state_options == unique_values(cache.df_raw, "State")

\* the user changes the selection of states
SelectStates(ss) ==
    /\ pc = "ready"
    /\ ss # selected_states
    /\ selected_states' = ss
    /\ Execute(cache, selected_group, selected_measures, ss)
    /\ UNCHANGED <<pc, csv_hosp, csv_state, selected_group, selected_measures, cache>>

Next ==
    \/ FirstRun
    \/ \E g \in DOMAIN MEASURE_GROUPS : SelectGroup(g)
    \/ \E ms \in toggled(selected_measures, Range(MEASURE_GROUPS[selected_group])) :
          SelectMeasures(ms)
    \/ \E ss \in toggled(selected_states, state_options) : SelectStates(ss)

Init == InitOf(HospCases)

Spec == Init /\ [][Next]_vars

InitState == InitOf(StateCases)

SpecState == InitState /\ [][Next]_vars

(***************************************************************************)
(* Properties.                                                             *)
(***************************************************************************)
Ready == pc = "ready"

\* the rows of the loaded hospital table the current selection asks for
Wanted(r) ==
    /\ r.v["Measure Name"].k = "str"
    /\ r.v["Measure Name"].s \in selected_measures
    /\ selected_states # {} => r.v["State"] \in selected_states

\* C2: the filtered table holds exactly the loaded rows whose measure name is
\* selected and, when states are selected, whose state is selected; with no
\* state selected every state is kept.
C2_FilterKeepsExactlySelected ==
    Ready => env.df = SelectSeq(cache.df_raw, Wanted)

\* a state filter that removed a row the measure filter had kept
C2_Witness ==
    /\ Ready
    /\ selected_states # {}
    /\ env.df # <<>>
    /\ \E i \in 1..Len(cache.df_raw) :
          /\ cache.df_raw[i].v["Measure Name"].s \in selected_measures
          /\ cache.df_raw[i].idx \notin Index(env.df)

\* C3: with no measure selected the filtered table has no rows and every view
\* is empty, zero or not available.
C3_EmptySelectionDegrades ==
    (Ready /\ selected_measures = {}) =>
        /\ env.df = <<>>
        /\ out.kpi.hospitals = 0
        /\ out.kpi.measures = 0
        /\ IsNaNRatio(out.kpi.coverage)
        /\ out.kpi.average.text = "N/A"
        /\ out.hist = <<>>
        /\ out.perf = {}
        /\ \/ out.volume.shown = "info"
           \/ out.volume.scatter = <<>> /\ out.volume.top_vol = <<>>
        /\ out.state_avg = {}
        /\ out.ranked = <<>> /\ out.worst = <<>> /\ out.best = <<>>
        /\ env.state_filtered = <<>>
        /\ out.state_long = <<>>

\* no measure selected, over loaded tables that do hold rows
C3_Witness ==
    /\ Ready
    /\ selected_measures = {}
    /\ cache.df_raw # <<>>
    /\ cache.df_state # <<>>
    /\ selected_group = EDAC

ScoredCount == Cardinality({i \in 1..Len(env.df) : env.df[i].v["Score"].k = "num"})

\* C4 as stated: for every filtered table the coverage ratio is scored rows
\* over all rows, lies in [0,1], is 0 when every score is absent and 1 when
\* none is.
C4_CoverageAlwaysInUnitInterval ==
    Ready =>
        /\ out.kpi.coverage.den > 0
        /\ out.kpi.coverage.num = ScoredCount
        /\ out.kpi.coverage.den = Len(env.df)
        /\ 0 <= out.kpi.coverage.num /\ out.kpi.coverage.num <= out.kpi.coverage.den
        /\ ScoredCount = 0 => out.kpi.coverage.num = 0
        /\ ScoredCount = Len(env.df) => out.kpi.coverage.num = out.kpi.coverage.den

\* C4 amended: the same for every filtered table that has a row; for a
\* filtered table without rows the ratio is NaN.
C4_CoverageOfNonEmptyTable ==
    Ready =>
        /\ Len(env.df) > 0 =>
              /\ out.kpi.coverage.den = Len(env.df)
              /\ out.kpi.coverage.num = ScoredCount
              /\ 0 <= out.kpi.coverage.num
              /\ out.kpi.coverage.num <= out.kpi.coverage.den
              /\ ScoredCount = 0 => out.kpi.coverage.num = 0
              /\ ScoredCount = Len(env.df) =>
                    out.kpi.coverage.num = out.kpi.coverage.den
        /\ Len(env.df) = 0 =>
              /\ IsNaNRatio(out.kpi.coverage)
              /\ out.kpi.coverage_text.text = "nan%"

\* a filtered table with a scored and an unscored row
C4_Witness ==
    /\ Ready
    /\ Len(env.df) >= 2
    /\ 0 < out.kpi.coverage.num
    /\ out.kpi.coverage.num < out.kpi.coverage.den

\* the label a filtered row is counted under
Label(r) ==
    IF r.v["Compared to National"].k = "nan"
    THEN Str("Not Available") ELSE r.v["Compared to National"]

PerfPairs ==
    {<<env.df[i].v["Measure Name"], Label(env.df[i])>> : i \in 1..Len(env.df)}

\* C5 as stated: each (measure, category) count is the number of filtered
\* rows with a score in that pair; rows without a score are counted nowhere.
C5_CountsScoredRowsOnly ==
    Ready =>
        \A k \in PerfPairs :
            LET n == Cardinality({i \in 1..Len(env.df) :
                        /\ env.df[i].v["Score"].k = "num"
                        /\ env.df[i].v["Measure Name"] = k[1]
                        /\ Label(env.df[i]) = k[2]})
            IN  /\ n > 0 => [measure |-> k[1], category |-> k[2], Hospitals |-> n]
                               \in out.perf
                /\ n = 0 => ~ \E x \in out.perf : x.measure = k[1] /\ x.category = k[2]

\* C5 amended: each (measure, category) count is the number of filtered rows
\* in that pair, scored or not; a row whose category is absent is counted
\* under "Not Available".
C5_CountsAllFilteredRows ==
    Ready =>
        /\ \A k \in PerfPairs :
              [measure   |-> k[1],
               category  |-> k[2],
               Hospitals |-> Cardinality({i \in 1..Len(env.df) :
                                /\ env.df[i].v["Measure Name"] = k[1]
                                /\ Label(env.df[i]) = k[2]})] \in out.perf
        /\ \A x \in out.perf : <<x.measure, x.category>> \in PerfPairs
        /\ Cardinality(out.perf) = Cardinality(PerfPairs)

\* a filtered row with neither score nor category, counted as "Not Available"
C5_Witness ==
    /\ Ready
    /\ \E i \in 1..Len(env.df) :
          /\ env.df[i].v["Score"].k = "nan"
          /\ env.df[i].v["Compared to National"].k = "nan"
    /\ \E x \in out.perf : x.category = Str("Not Available") /\ x.Hospitals >= 1

BothPresent(r) == r.v["Score"].k = "num" /\ r.v["Number of Patients"].k = "num"

\* C8: the volume view computes its data (rows with score and number of
\* patients, bubble size, top contributors) exactly when the selected group
\* is EDAC; for any other group it shows the notice and computes nothing.
C8_VolumeOnlyForEDAC ==
    Ready =>
        /\ out.volume.shown = "charts" <=> selected_group = EDAC
        /\ selected_group # EDAC =>
              /\ out.volume.shown = "info"
              /\ "df_scatter" \notin env.bound
              /\ out.volume.scatter = <<>>
              /\ out.volume.top_vol = <<>>
        /\ selected_group = EDAC =>
              /\ "df_scatter" \in env.bound
              /\ out.volume.scatter = env.df_scatter
              /\ project(env.df_scatter, HospCols) = SelectSeq(env.df, BothPresent)
              /\ \A i \in 1..Len(env.df_scatter) :
                    env.df_scatter[i].v["bubble_size"] =
                        IF env.df_scatter[i].v["Number of Patients Returned"].k = "num"
                        THEN env.df_scatter[i].v["Number of Patients Returned"]
                        ELSE env.df_scatter[i].v["Number of Patients"]
              /\ Len(out.volume.top_vol) =
                    IF Len(env.df_scatter) < TOP_VOL_N THEN Len(env.df_scatter)
                    ELSE TOP_VOL_N
              /\ Index(out.volume.top_vol) \subseteq Index(env.df_scatter)
              /\ \A i, j \in 1..Len(out.volume.top_vol) :
                    i < j => out.volume.top_vol[i].v["Number of Patients"].n
                               >= out.volume.top_vol[j].v["Number of Patients"].n

\* EDAC selected: a row left out for its missing patient count, and a bubble
\* size taken from the patient count
C8_Witness ==
    /\ Ready
    /\ selected_group = EDAC
    /\ out.volume.shown = "charts"
    /\ Len(env.df_scatter) < Len(env.df)
    /\ \E i \in 1..Len(env.df_scatter) :
          /\ env.df_scatter[i].v["Number of Patients Returned"].k = "nan"
          /\ env.df_scatter[i].v["bubble_size"].k = "num"

\* C10: the two loaded tables keep, through every execution of the script,
\* the rows, columns and cells they had right after load; derived columns and
\* row drops go to other frames.
C10_LoadedTablesNeverModified ==
    /\ [](Ready => env.df_raw = cache.df_raw /\ env.df_state = cache.df_state)
    /\ [][Ready => cache' = cache]_vars

\* an execution that filtered by state, added the derived columns and
\* dropped a state-table row
C10_Witness ==
    /\ Ready
    /\ selected_group = EDAC
    /\ selected_states # {}
    /\ env.df_perf # <<>>
    /\ env.df_scatter # <<>>
    /\ Len(env.df) < Len(env.df_raw)
    /\ Len(env.state_filtered) < Len(env.df_state)

\* the configured counter columns of the selected group
ValueCols == STATE_BENCHMARK_CONFIG[selected_group]

\* the rows of the loaded state table the current selection asks for
FilteredState == SelectSeq(cache.df_state, Wanted)

AllCountersAbsent(r) == \A k \in 1..Len(ValueCols) : r.v[ValueCols[k]].k = "nan"

SomeCounterPresent(r) == ~ AllCountersAbsent(r)

\* the long-form entry made from kept row i and configured column k
LongEntry(i, k) == out.state_long[(k - 1) * Len(env.state_filtered) + i]

\* a counter as a summand: an absent counter adds nothing
Count(c) == IF c.k = "num" THEN c.n ELSE 0

Key(r) == <<r.v["State"], r.v["Measure Name"]>>

\* C9: a filtered state-table row is dropped if and only if all the counters
\* configured for the selected group are absent in it; a kept row carries its
\* absent counters into the long form as absent; a dropped row has no entry.
C9_DroppedIffAllCountersAbsent ==
    Ready =>
        /\ env.state_filtered = SelectSeq(FilteredState, SomeCounterPresent)
        /\ \A i \in 1..Len(FilteredState) :
              FilteredState[i].idx \notin Index(env.state_filtered)
                  <=> AllCountersAbsent(FilteredState[i])
        /\ Len(out.state_long) = Len(env.state_filtered) * Len(ValueCols)
        /\ \A i \in 1..Len(env.state_filtered), k \in 1..Len(ValueCols) :
              /\ Key(LongEntry(i, k)) = Key(env.state_filtered[i])
              /\ LongEntry(i, k).v["Performance"] = Str(ValueCols[k])
              /\ LongEntry(i, k).v["Hospitals"] = env.state_filtered[i].v[ValueCols[k]]
        /\ \A i \in 1..Len(FilteredState) :
              (/\ AllCountersAbsent(FilteredState[i])
               /\ \A j \in 1..Len(env.state_filtered) :
                     Key(env.state_filtered[j]) # Key(FilteredState[i]))
              => \A p \in 1..Len(out.state_long) :
                     Key(out.state_long[p]) # Key(FilteredState[i])

\* a dropped row beside a kept row that has an absent counter
C9_Witness ==
    /\ Ready
    /\ \E i \in 1..Len(FilteredState) : AllCountersAbsent(FilteredState[i])
    /\ \E i \in 1..Len(env.state_filtered), k \in 1..Len(ValueCols) :
          /\ env.state_filtered[i].v[ValueCols[k]].k = "nan"
          /\ LongEntry(i, k).v["Hospitals"].k = "nan"

RowTotal(r) ==
    SumOver(1..Len(ValueCols), [k \in 1..Len(ValueCols) |-> Count(r.v[ValueCols[k]])])

\* C7: the wide-to-long reshape preserves totals: the long form has one entry
\* per kept row and configured counter column, the entries made from a kept
\* row sum to the row's counters, and so for every (state, measure) the
\* long-form 'Hospitals' sum equals the counter sum of the kept rows of that
\* (state, measure).
C7_MeltPreservesTotals ==
    Ready =>
        LET n    == Len(env.state_filtered)
            long == out.state_long
        IN  /\ Len(long) = n * Len(ValueCols)
            /\ \A i \in 1..n :
                  /\ \A k \in 1..Len(ValueCols) :
                        Key(LongEntry(i, k)) = Key(env.state_filtered[i])
                  /\ SumOver(1..Len(ValueCols),
                             [k \in 1..Len(ValueCols) |->
                                 Count(LongEntry(i, k).v["Hospitals"])])
                       = RowTotal(env.state_filtered[i])
            /\ \A i \in 1..n :
                  LET key == Key(env.state_filtered[i])
                      ps  == {p \in 1..Len(long) : Key(long[p]) = key}
                      rs  == {j \in 1..n : Key(env.state_filtered[j]) = key}
                  IN  SumOver(ps, [p \in ps |-> Count(long[p].v["Hospitals"])])
                        = SumOver(rs, [j \in rs |-> RowTotal(env.state_filtered[j])])

\* two kept rows with counts, one of them with a count in the last column
C7_Witness ==
    /\ Ready
    /\ Len(env.state_filtered) >= 2
    /\ \E i \in 1..Len(env.state_filtered) :
          /\ RowTotal(env.state_filtered[i]) > 0
          /\ LongEntry(i, Len(ValueCols)).v["Hospitals"].k = "num"
          /\ LongEntry(i, Len(ValueCols)).v["Hospitals"].n > 0

InitLoad == InitOf(LoadCases)

SpecLoad == InitLoad /\ [][Next]_vars

InitRank == InitOf(RankCases)

SpecRank == InitRank /\ [][Next]_vars

IsSentinel(c) == c.k = "str" /\ c.s \in na_vals

NoSentinel(df) == \A i \in 1..Len(df) : \A c \in DOMAIN df[i].v : ~ IsSentinel(df[i].v[c])

\* C1: after loading, no cell of the hospital table or of the state table
\* holds one of the missing-value sentinels.
C1_NoSentinelInLoadedTables ==
    Ready => NoSentinel(cache.df_raw) /\ NoSentinel(cache.df_state)

\* the half of C1 that the hospital loader does ensure
HospitalTableHasNoSentinel == Ready => NoSentinel(cache.df_raw)

\* C6: the worst list is the first 10 of the scored rows in descending order
\* of score, the best list the last 10 of them in ascending order, ties
\* included; with at least 20 scored rows the two lists share no row.
C6_WorstAndBestDisjoint ==
    Ready =>
        /\ Index(out.ranked) = {env.df[i].idx : i \in {j \in 1..Len(env.df) :
                                                        env.df[j].v["Score"].k = "num"}}
        /\ Len(out.ranked) = ScoredCount
        /\ \A i, j \in 1..Len(out.ranked) :
              i < j => out.ranked[i].v["Score"].n >= out.ranked[j].v["Score"].n
        /\ \A i \in 1..Len(out.worst) :
              /\ out.worst[i].idx = out.ranked[i].idx
              /\ out.worst[i].v["Score"] = out.ranked[i].v["Score"]
        /\ Index(out.best) =
              {out.ranked[i].idx : i \in {j \in 1..Len(out.ranked) :
                                            j > Len(out.ranked) - 10}}
        /\ \A i, j \in 1..Len(out.worst) :
              i < j => out.worst[i].v["Score"].n >= out.worst[j].v["Score"].n
        /\ \A i, j \in 1..Len(out.best) :
              i < j => out.best[i].v["Score"].n <= out.best[j].v["Score"].n
        /\ ScoredCount >= 20 =>
              /\ Len(out.worst) = 10
              /\ Len(out.best) = 10
              /\ Index(out.worst) \cap Index(out.best) = {}

\* exactly 20 scored rows, with a score that occurs in both lists
C6_Witness ==
    /\ Ready
    /\ ScoredCount = 20
    /\ \E i \in 1..Len(out.worst), j \in 1..Len(out.best) :
          /\ out.worst[i].v["Score"] = out.best[j].v["Score"]
          /\ out.worst[i].idx # out.best[j].idx
    /\ \E i, j \in 1..Len(out.best) : out.best[i].v["Score"] # out.best[j].v["Score"]

====
